---- MODULE Spec2Model ----
(***************************************************************************)
(* Task-status poller and UI binder of the text_digest plugin              *)
(* (src/browsepy/plugin/text_digest/README.md, lines 70-210), and the       *)
(* legacy poller of the same file (lines 19-57).                           *)
(*                                                                         *)
(* The browser runs one handler at a time, so every action below is one    *)
(* whole handler: a call of loadTaskStatus, the continuation of one fetch  *)
(* (its .then/.then/.catch chain), or one timer callback.  The server and  *)
(* the network are the environment: every response is drawn from small     *)
(* sets.  A DOM element is denoted by the handle of its row; NULL is the   *)
(* absent element and TypeError is the exception raised by reading a       *)
(* property of null.                                                       *)
(***************************************************************************)
EXTENDS Integers, FiniteSets, Sequences, Bags, TLC

\* ------------------------------------------------------------------ bounds
MaxLoads  == 1          \* calls of loadTaskStatus by the page, in one run
MaxClicks == 2          \* clicks on the controls, in one run
TickMs    == 750        \* granularity of the passage of time, in ms
MaxLegacyClicks == 1    \* calls of handleClick, in one run
MaxRows   == 2          \* rows of the table body 'tasks', in one run

\* ------------------------------------------------------- program constants
TaskPollDelay == 1500   \* setTimeout(..., 1_500)

Handles      == {"h1", "h2"}
MaxChains    == IF MaxLoads > MaxClicks THEN MaxLoads ELSE MaxClicks
Chains       == 1..MaxChains
TaskStatuses == {"SUCCESS", "FAILED", "NOT FOUND", "PENDING"}
TaskResults  == {"done", "42"}
Terminal     == {"SUCCESS", "FAILED", "NOT FOUND"}

NULL      == "null"
TypeError == "TypeError"

\* A response body: json says whether response.json() resolves.  The data of a
\* status response is {task_id, task_name, task_status, task_result}
\* (task_name is only logged).
Payloads == [json : {TRUE}, task_id : Handles, task_status : TaskStatuses,
             task_result : TaskResults]
BadBody  == [json |-> FALSE, task_id |-> NULL, task_status |-> NULL,
             task_result |-> NULL]
Bodies   == Payloads \cup {BadBody}

\* What the server may answer: fetchTaskStatus reads the body of a 200 or 404
\* only, registerFileTransformation the body of a 201 only.
StatusAnswers   == ({200, 404} \X Bodies) \cup ({500} \X {BadBody})
RegisterAnswers == ({201} \X {TRUE, FALSE}) \cup ({400, 500} \X {FALSE})

\* The shapes a row ct-<handle> may have: absent from the document, or present
\* with ncells cells, cell 3 holding a first child (the control) or not.
AbsentRow  == [present |-> FALSE, ncells |-> 0, btn |-> FALSE]
FullRow    == [present |-> TRUE,  ncells |-> 5, btn |-> TRUE]
NoResult   == [present |-> TRUE,  ncells |-> 4, btn |-> TRUE]
NoControl  == [present |-> TRUE,  ncells |-> 5, btn |-> FALSE]
NoCells    == [present |-> TRUE,  ncells |-> 1, btn |-> FALSE]
RowShapes  == {AbsentRow, FullRow, NoResult, NoControl, NoCells}

\* The documents the runs start from: every shape for every row.
InitialRows == [Handles -> RowShapes]

VARIABLES
  rows,         \* DOM: the shape of the row of each handle
  statusText,   \* DOM: innerText of cells[1] of each row
  resultText,   \* DOM: innerText of cells[4] of each row
  btnDisabled,  \* DOM: the disabled flag of the control of each row
  net,          \* bag of outstanding requests and pending timers
  nextChain,    \* history: number of the next loadTaskStatus call
  hist          \* history: per chain, what its handlers have seen

\* The state of the legacy poller (handleClick, getStatus, getTableRow).
VARIABLES
  taskRows,     \* DOM: the rows of the table body 'tasks', in document order
  polls,        \* bag of the legacy poller's outstanding requests and timers
  clicks,       \* history: number of handleClick calls so far
  tasksDone     \* server: every task has reached SUCCESS or FAILED

legacyVars == <<taskRows, polls, clicks, tasksDone>>
pollerVars == <<rows, statusText, resultText, btnDisabled, net, nextChain, hist>>

vars == <<rows, statusText, resultText, btnDisabled, net, nextChain, hist,
          taskRows, polls, clicks, tasksDone>>

\* Before the first handleClick: an empty table body, nothing outstanding.
LegacyIdle ==
  /\ taskRows = << >>
  /\ polls = EmptyBag
  /\ clicks = 0
  /\ tasksDone = FALSE

\* An outstanding fetch ("status", "register") or a pending timer ("timer") of
\* the chain started by the chain-th loadTaskStatus call; elapsed is the time
\* since a timer was set.
Item(kind, h, chain, elapsed) ==
  [kind |-> kind, h |-> h, chain |-> chain, elapsed |-> elapsed]

One(x) == SetToBag({x})

\* ------------------------------------------------------------ DOM lookups
getTaskRow(brokerId) ==
  IF rows[brokerId].present THEN brokerId ELSE NULL

getTaskLoadBtn(row) ==
  IF row = NULL THEN TypeError
  ELSE IF rows[row].ncells > 3 /\ rows[row].btn THEN row ELSE NULL

getTaskStatusCell(row) ==
  IF row = NULL THEN TypeError
  ELSE IF rows[row].ncells > 1 THEN row ELSE NULL

getTaskResultCell(row) ==
  IF row = NULL THEN TypeError
  ELSE IF rows[row].ncells > 4 THEN row ELSE NULL

\* row && getTaskLoadBtn(row) || null
LoadBtnOf(brokerId) ==
  LET row == getTaskRow(brokerId)
  IN  IF row = NULL THEN NULL ELSE getTaskLoadBtn(row)

\* Mutant: the body of enableTaskLoadBtn pasted into disableTaskLoadBtn.
disableTaskLoadBtn_Enables(brokerId, dis) ==
  LET btn == LoadBtnOf(brokerId)
  IN  IF btn # NULL THEN [dis EXCEPT ![btn] = FALSE] ELSE dis

\* The value of the disabled flags after disableTaskLoadBtn(brokerId)
disableTaskLoadBtn(brokerId, dis) ==
  LET btn == LoadBtnOf(brokerId)
  IN  IF btn # NULL THEN [dis EXCEPT ![btn] = TRUE] ELSE dis

\* Mutant: the body of disableTaskLoadBtn pasted into enableTaskLoadBtn.
enableTaskLoadBtn_Disables(brokerId, dis) ==
  LET btn == LoadBtnOf(brokerId)
  IN  IF btn # NULL THEN [dis EXCEPT ![btn] = TRUE] ELSE dis

\* The value of the disabled flags after enableTaskLoadBtn(brokerId)
enableTaskLoadBtn(brokerId, dis) ==
  LET btn == LoadBtnOf(brokerId)
  IN  IF btn # NULL THEN [dis EXCEPT ![btn] = FALSE] ELSE dis

\* --------------------------------------------------------------- requests
\* The requests a call issues before it returns.
fetchTaskStatus(brokerId, chain) ==
  One(Item("status", brokerId, chain, 0))

registerFileTransformation(brokerId, chain) ==
  One(Item("register", brokerId, chain, 0))

\* setTimeout(() => fetchTaskStatus(task_id), 1_500)
setTimeout(task_id, chain) ==
  One(Item("timer", task_id, chain, 0))

TimerDue(t) == t.elapsed >= TaskPollDelay

\* Mutant: the label 'NOT FOUND' misspelt, so that status takes the default.
SwitchCase_NotFoundMisspelt(task_status) ==
  IF task_status = "SUCCESS" THEN "SUCCESS"
  ELSE IF task_status \in {"FAILED", "NOT_FOUND"} THEN "FAILED"
  ELSE "default"

\* switch (task_status): the case that runs.
SwitchCase(task_status) ==
  IF task_status = "SUCCESS" THEN "SUCCESS"
  ELSE IF task_status \in {"FAILED", "NOT FOUND"} THEN "FAILED"
  ELSE "default"

\* The .then(res => ...) handler of fetchTaskStatus on the payload res:
\* what it writes, what it issues, and whether it threw.
ProcessStatus(brokerId, chain, res) ==
  LET taskRow    == getTaskRow(brokerId)
      statusCell == getTaskStatusCell(taskRow)
      resultCell == getTaskResultCell(taskRow)
      st1 == IF statusCell # NULL
               THEN [statusText EXCEPT ![statusCell] = res.task_status]
               ELSE statusText
      Write(text) == IF resultCell # NULL
                       THEN [resultText EXCEPT ![resultCell] = text]
                       ELSE resultText
  IN  IF statusCell = TypeError \/ resultCell = TypeError
        THEN [threw |-> TRUE, st |-> statusText, rt |-> resultText, issued |-> EmptyBag]
      ELSE IF SwitchCase(res.task_status) = "SUCCESS"
        THEN [threw |-> FALSE, st |-> st1, rt |-> Write(res.task_result),
              issued |-> registerFileTransformation(brokerId, chain)]
      ELSE IF SwitchCase(res.task_status) = "FAILED"
        THEN [threw |-> FALSE, st |-> st1, rt |-> Write("No Result"),
              issued |-> EmptyBag]
      ELSE [threw |-> FALSE, st |-> st1, rt |-> Write("Pending"),
            issued |-> setTimeout(res.task_id, chain)]

\* The first .then of fetchTaskStatus: the payload, or a rejection.
StatusJson(http, body) ==
  IF http \in {200, 404} /\ body.json THEN body ELSE BadBody

\* Mutant: a 400 is not handled and takes the else branch.
RegisterThen_Throws400(brokerId, chain, http, json) ==
  IF http = 201
    THEN (IF json THEN [threw |-> FALSE, issued |-> EmptyBag]
                  ELSE [threw |-> TRUE, issued |-> EmptyBag])
  ELSE [threw |-> TRUE, issued |-> EmptyBag]

\* Mutant: the status is fetched again after a 201 as well.
RegisterThen_RefetchesOn201(brokerId, chain, http, json) ==
  IF http = 201
    THEN (IF json THEN [threw |-> FALSE, issued |-> fetchTaskStatus(brokerId, chain)]
                  ELSE [threw |-> TRUE, issued |-> EmptyBag])
  ELSE IF http = 400
    THEN [threw |-> FALSE, issued |-> fetchTaskStatus(brokerId, chain)]
  ELSE [threw |-> TRUE, issued |-> EmptyBag]

\* The first .then of registerFileTransformation: what it issues, or a rejection.
RegisterThen(brokerId, chain, http, json) ==
  IF http = 201
    THEN (IF json THEN [threw |-> FALSE, issued |-> EmptyBag]
                  ELSE [threw |-> TRUE, issued |-> EmptyBag])
  ELSE IF http = 400
    THEN [threw |-> FALSE, issued |-> fetchTaskStatus(brokerId, chain)]
  ELSE [threw |-> TRUE, issued |-> EmptyBag]

\* ---------------------------------------------------------------- history
\* hist[chain] collects: "SUCCESS" and "FINAL" (FAILED or NOT FOUND) for the
\* terminal statuses fetchTaskStatus has processed, "400" for a registration
\* answered 400, "TRANSPORT" for a failed request
\* (network error or unhandled HTTP status) and "RAISED" for an error raised
\* while a response was processed; the last two are the runs of a .catch.
Saw(chain, tags) == [hist EXCEPT ![chain] = @ \cup tags]

\* ------------------------------------------------------------------- Init
Init ==
  /\ rows \in InitialRows
  /\ statusText = [h \in Handles |-> ""]
  /\ resultText = [h \in Handles |-> ""]
  /\ btnDisabled = [h \in Handles |-> FALSE]
  /\ net = EmptyBag
  /\ nextChain = 1
  /\ hist = [c \in Chains |-> {}]
  /\ LegacyIdle

\* ---------------------------------------------------------------- actions
\* loadTaskStatus(brokerId): the call starts the chain numbered nextChain.
LoadBody(brokerId) ==
  /\ btnDisabled' = disableTaskLoadBtn(brokerId, btnDisabled)
  /\ net' = net (+) fetchTaskStatus(brokerId, nextChain)
  /\ nextChain' = nextChain + 1
  /\ UNCHANGED <<rows, statusText, resultText, hist, legacyVars>>

\* The page calls loadTaskStatus(brokerId), for any handle at any time.
loadTaskStatus(brokerId) ==
  /\ nextChain <= MaxLoads
  /\ LoadBody(brokerId)

\* The user clicks the control of a row, which calls loadTaskStatus: possible
\* only on a control that is there and enabled.
Click(brokerId) ==
  /\ nextChain <= MaxClicks
  /\ LoadBtnOf(brokerId) # NULL
  /\ ~btnDisabled[brokerId]
  /\ LoadBody(brokerId)

\* Mutant: the control is re-enabled after a FAILED or NOT FOUND status as well.
StatusResponse_EnablesOnFinal(req, http, body) ==
  /\ BagIn(req, net) /\ req.kind = "status"
  /\ LET res == StatusJson(http, body)
         r   == IF ~res.json
                  THEN [threw |-> TRUE, st |-> statusText, rt |-> resultText,
                        issued |-> EmptyBag]
                  ELSE ProcessStatus(req.h, req.chain, res)
         seen == (IF ~res.json THEN {}
                  ELSE IF res.task_status = "SUCCESS" THEN {"SUCCESS"}
                  ELSE IF res.task_status \in Terminal THEN {"FINAL"}
                  ELSE {})
                   \cup (IF ~r.threw THEN {}
                         ELSE IF http \in {200, 404} THEN {"RAISED"}
                         ELSE {"TRANSPORT"})
     IN  /\ statusText' = r.st
         /\ resultText' = r.rt
         /\ btnDisabled' = IF r.threw \/ "FINAL" \in seen
                            THEN enableTaskLoadBtn(req.h, btnDisabled)
                            ELSE btnDisabled
         /\ net' = (net (-) One(req)) (+) r.issued
         /\ hist' = Saw(req.chain, seen)
  /\ UNCHANGED <<rows, nextChain, legacyVars>>

\* The server answers a status request with an HTTP status and a body.
StatusResponse(req, http, body) ==
  /\ BagIn(req, net) /\ req.kind = "status"
  /\ LET res == StatusJson(http, body)
         r   == IF ~res.json
                  THEN [threw |-> TRUE, st |-> statusText, rt |-> resultText,
                        issued |-> EmptyBag]
                  ELSE ProcessStatus(req.h, req.chain, res)
         seen == (IF ~res.json THEN {}
                  ELSE IF res.task_status = "SUCCESS" THEN {"SUCCESS"}
                  ELSE IF res.task_status \in Terminal THEN {"FINAL"}
                  ELSE {})
                   \cup (IF ~r.threw THEN {}
                         ELSE IF http \in {200, 404} THEN {"RAISED"}
                         ELSE {"TRANSPORT"})
     IN  /\ statusText' = r.st
         /\ resultText' = r.rt
         /\ btnDisabled' = IF r.threw THEN enableTaskLoadBtn(req.h, btnDisabled)
                                      ELSE btnDisabled
         /\ net' = (net (-) One(req)) (+) r.issued
         /\ hist' = Saw(req.chain, seen)
  /\ UNCHANGED <<rows, nextChain, legacyVars>>

\* A status request fails in the network: fetch rejects.
StatusNetworkError(req) ==
  /\ BagIn(req, net) /\ req.kind = "status"
  /\ btnDisabled' = enableTaskLoadBtn(req.h, btnDisabled)
  /\ net' = net (-) One(req)
  /\ hist' = Saw(req.chain, {"TRANSPORT"})
  /\ UNCHANGED <<rows, statusText, resultText, nextChain, legacyVars>>

\* The server answers a registration request.
RegisterResponse(req, http, json) ==
  /\ BagIn(req, net) /\ req.kind = "register"
  /\ LET r == RegisterThen(req.h, req.chain, http, json)
     IN  /\ btnDisabled' = IF r.threw THEN enableTaskLoadBtn(req.h, btnDisabled)
                                      ELSE btnDisabled
         /\ net' = (net (-) One(req)) (+) r.issued
         /\ hist' = Saw(req.chain,
                        (IF http = 400 THEN {"400"} ELSE {})
                          \cup (IF ~r.threw THEN {}
                                ELSE IF http = 201 THEN {"RAISED"}
                                ELSE {"TRANSPORT"}))
  /\ UNCHANGED <<rows, statusText, resultText, nextChain, legacyVars>>

\* A registration request fails in the network.
RegisterNetworkError(req) ==
  /\ BagIn(req, net) /\ req.kind = "register"
  /\ btnDisabled' = enableTaskLoadBtn(req.h, btnDisabled)
  /\ net' = net (-) One(req)
  /\ hist' = Saw(req.chain, {"TRANSPORT"})
  /\ UNCHANGED <<rows, statusText, resultText, nextChain, legacyVars>>

\* Mutant: setInterval for setTimeout, the timer stays set after it fires.
TimerFire_Interval(t) ==
  /\ BagIn(t, net) /\ t.kind = "timer"
  /\ TimerDue(t)
  /\ net' = net (+) fetchTaskStatus(t.h, t.chain)
  /\ UNCHANGED <<rows, statusText, resultText, btnDisabled, nextChain, hist, legacyVars>>

\* A timer set by fetchTaskStatus fires: its callback calls fetchTaskStatus.
TimerFire(t) ==
  /\ BagIn(t, net) /\ t.kind = "timer"
  /\ TimerDue(t)
  /\ net' = (net (-) One(t)) (+) fetchTaskStatus(t.h, t.chain)
  /\ UNCHANGED <<rows, statusText, resultText, btnDisabled, nextChain, hist, legacyVars>>

\* Time passes: every pending timer ages by TickMs (no further than its delay).
Aged(x) ==
  IF x.kind = "timer"
    THEN [x EXCEPT !.elapsed = IF @ + TickMs >= TaskPollDelay THEN TaskPollDelay
                                ELSE @ + TickMs]
    ELSE x

RECURSIVE AgedBag(_, _)
AgedBag(b, todo) ==
  IF todo = {} THEN EmptyBag
  ELSE LET x == CHOOSE y \in todo : TRUE
       IN  [i \in {Aged(x)} |-> b[x]] (+) AgedBag(b, todo \ {x})

Tick ==
  /\ \E t \in BagToSet(net) : t.kind = "timer" /\ ~TimerDue(t)
  /\ net' = AgedBag(net, BagToSet(net))
  /\ UNCHANGED <<rows, statusText, resultText, btnDisabled, nextChain, hist, legacyVars>>

\* The environment's steps: answers, failures, timers and time.
Environment ==
  \/ \E req \in BagToSet(net), a \in StatusAnswers : StatusResponse(req, a[1], a[2])
  \/ \E req \in BagToSet(net) : StatusNetworkError(req)
  \/ \E req \in BagToSet(net), a \in RegisterAnswers : RegisterResponse(req, a[1], a[2])
  \/ \E req \in BagToSet(net) : RegisterNetworkError(req)
  \/ \E t \in BagToSet(net) : TimerFire(t)
  \/ Tick

Next ==
  \/ \E h \in Handles : loadTaskStatus(h)
  \/ Environment

Spec == Init /\ [][Next]_vars

\* The server answers every request and the event loop runs every completed
\* fetch and every due timer: the environment's steps are not postponed for ever.
SpecFair == Init /\ [][Next]_vars /\ WF_vars(Environment)

\* loadTaskStatus is reached through the controls only.
NextClick ==
  \/ \E h \in Handles : Click(h)
  \/ Environment

SpecClick == Init /\ [][NextClick]_vars

\* ---------------------------------------------------------- legacy poller
\* handleClick, getStatus and getTableRow (README.md, lines 19-57): the table
\* body 'tasks' gets one row per polled handle.  A text is a sequence of
\* tokens, each a run of characters or a tag.
LegacyPollDelay == 1000   \* setTimeout(..., 1000)

LegacyHandles == {"", "h1", "h2"}
Tags          == {"<b>", "</b>"}

\* A JSON value of task_result: null, or a string.
JsonNull == [null |-> TRUE,  text |-> << >>]
Str(t)   == [null |-> FALSE, text |-> t]
LegacyResults == {Str(<<"42">>), Str(<<"<b>", "42", "</b>">>)}

\* A response body: json() rejects ("nojson"), or resolves to an object without
\* data ("nodata"), or to {data: {task_id, task_status, task_result}}; the
\* result is null until the task has succeeded or failed.
Body(kind, task_id, task_status, task_result) ==
  [kind |-> kind, task_id |-> task_id, task_status |-> task_status,
   task_result |-> task_result]
NoJson == Body("nojson", "", "", JsonNull)
NoData == Body("nodata", "", "", JsonNull)
LegacyPayloads ==
  {Body("data", h, st, JsonNull) :
     h \in LegacyHandles, st \in TaskStatuses \ {"SUCCESS", "FAILED"}}
  \cup {Body("data", h, st, r) :
          h \in LegacyHandles, st \in {"SUCCESS", "FAILED"}, r \in LegacyResults}
SleeperBodies == {NoJson, NoData} \cup {Body("data", h, "", JsonNull) : h \in LegacyHandles}

LegacyItem(kind, h, elapsed) == [kind |-> kind, h |-> h, elapsed |-> elapsed]

\* `${v}` in a template literal
TemplateString(v) == IF v.null THEN <<"null">> ELSE v.text

\* The text a cell shows once the parser has read its markup: tags become
\* elements, the character data is what is displayed.
IsText(token) == token \notin Tags
InnerText(html) == SelectSeq(html, IsText)

\* `<td>${brokerId}</td><td>${task_status}</td><td>${task_result}</td>`:
\* the markup between each <td> and </td>.
Html(brokerId, data) ==
  <<TemplateString(Str(<<brokerId>>)), TemplateString(Str(<<data.task_status>>)),
    TemplateString(data.task_result)>>

\* row.innerHTML = html: the texts of the cells of the row.
Cells(html) == [i \in DOMAIN html |-> InnerText(html[i])]

\* `${rowIdPrefix}-${rowId}` with the default prefix 'data'
DataId(rowId) == <<"data", rowId>>

\* document.getElementById: the first row with that id, 0 for null.
getElementById(id) ==
  LET found == {i \in DOMAIN taskRows : taskRows[i].id = id}
  IN  IF found = {} THEN 0 ELSE CHOOSE i \in found : \A j \in found : i <= j

\* getTableRow(rowId, 'tasks'): the rows of the table after the call and the
\* position of the row it returns.
getTableRow(rowId) ==
  LET dataId == DataId(rowId)
      row    == IF rowId = "" THEN 0 ELSE getElementById(dataId)
  IN  IF row = 0
        THEN [rows |-> Append(taskRows, [id |-> dataId, cells |-> << >>]),
              row  |-> Len(taskRows) + 1]
        ELSE [rows |-> taskRows, row |-> row]

\* The request getStatus(brokerId) issues before it returns.
getStatus(brokerId) == One(LegacyItem("get", brokerId, 0))

\* Mutant: only SUCCESS stops the polling.
StopsPolling_SuccessOnly(taskStatus) == taskStatus = "SUCCESS"

\* taskStatus === 'SUCCESS' || taskStatus === 'FAILED'
StopsPolling(taskStatus) == taskStatus = "SUCCESS" \/ taskStatus = "FAILED"

\* The bodies the server may send for a status request: terminal statuses
\* only once the tasks are done, and no body that would add a row to a table
\* of MaxRows rows.
GetAnswers(req) ==
  {NoJson, NoData}
  \cup {b \in LegacyPayloads :
          /\ tasksDone => StopsPolling(b.task_status)
          /\ Len(getTableRow(req.h).rows) <= MaxRows}

\* handleClick(type): POST /digest/task/sleeper
handleClick ==
  /\ clicks < MaxLegacyClicks
  /\ clicks' = clicks + 1
  /\ polls' = polls (+) One(LegacyItem("sleeper", "", 0))
  /\ UNCHANGED <<taskRows, tasksDone, pollerVars>>

\* The answer to the POST: getStatus(res.data.task_id), or an unhandled
\* rejection (the chain has no .catch).
SleeperResponse(req, body) ==
  /\ BagIn(req, polls) /\ req.kind = "sleeper"
  /\ polls' = (polls (-) One(req)) (+)
                (IF body.kind = "data" THEN getStatus(body.task_id) ELSE EmptyBag)
  /\ UNCHANGED <<taskRows, clicks, tasksDone, pollerVars>>

SleeperNetworkError(req) ==
  /\ BagIn(req, polls) /\ req.kind = "sleeper"
  /\ polls' = polls (-) One(req)
  /\ UNCHANGED <<taskRows, clicks, tasksDone, pollerVars>>

\* The answer to the GET of getStatus(req.h); the HTTP status is not read.
GetStatusResponse(req, body) ==
  /\ BagIn(req, polls) /\ req.kind = "get"
  /\ IF body.kind # "data"
       THEN /\ polls' = polls (-) One(req)
            /\ UNCHANGED taskRows
       ELSE LET html == Html(req.h, body)
                r    == getTableRow(req.h)
            IN  /\ taskRows' = [r.rows EXCEPT ![r.row].cells = Cells(html)]
                /\ polls' = (polls (-) One(req)) (+)
                              (IF StopsPolling(body.task_status) THEN EmptyBag
                               ELSE One(LegacyItem("timer", body.task_id, 0)))
  /\ UNCHANGED <<clicks, tasksDone, pollerVars>>

GetStatusNetworkError(req) ==
  /\ BagIn(req, polls) /\ req.kind = "get"
  /\ polls' = polls (-) One(req)
  /\ UNCHANGED <<taskRows, clicks, tasksDone, pollerVars>>

LegacyTimerDue(t) == t.elapsed >= LegacyPollDelay

\* The timer set by getStatus fires: getStatus(res.data.task_id).
LegacyTimerFire(t) ==
  /\ BagIn(t, polls) /\ t.kind = "timer"
  /\ LegacyTimerDue(t)
  /\ polls' = (polls (-) One(t)) (+) getStatus(t.h)
  /\ UNCHANGED <<taskRows, clicks, tasksDone, pollerVars>>

LegacyAged(x) ==
  IF x.kind = "timer"
    THEN [x EXCEPT !.elapsed = IF @ + TickMs >= LegacyPollDelay THEN LegacyPollDelay
                                ELSE @ + TickMs]
    ELSE x

RECURSIVE LegacyAgedBag(_, _)
LegacyAgedBag(b, todo) ==
  IF todo = {} THEN EmptyBag
  ELSE LET x == CHOOSE y \in todo : TRUE
       IN  [i \in {LegacyAged(x)} |-> b[x]] (+) LegacyAgedBag(b, todo \ {x})

LegacyTick ==
  /\ \E t \in BagToSet(polls) : t.kind = "timer" /\ ~LegacyTimerDue(t)
  /\ polls' = LegacyAgedBag(polls, BagToSet(polls))
  /\ UNCHANGED <<taskRows, clicks, tasksDone, pollerVars>>

\* The server's tasks complete: from now on it reports SUCCESS or FAILED.
TasksFinish ==
  /\ ~tasksDone
  /\ tasksDone' = TRUE
  /\ UNCHANGED <<taskRows, polls, clicks, pollerVars>>

LegacyEnvironment ==
  \/ \E req \in BagToSet(polls), b \in SleeperBodies : SleeperResponse(req, b)
  \/ \E req \in BagToSet(polls) : SleeperNetworkError(req)
  \/ \E req \in BagToSet(polls) : \E b \in GetAnswers(req) : GetStatusResponse(req, b)
  \/ \E req \in BagToSet(polls) : GetStatusNetworkError(req)
  \/ \E t \in BagToSet(polls) : LegacyTimerFire(t)
  \/ LegacyTick
  \/ TasksFinish

NextLegacy ==
  \/ handleClick
  \/ LegacyEnvironment

\* The page of the legacy script: no ct- rows, an empty table body 'tasks'.
InitLegacy ==
  /\ rows = [h \in Handles |-> AbsentRow]
  /\ statusText = [h \in Handles |-> ""]
  /\ resultText = [h \in Handles |-> ""]
  /\ btnDisabled = [h \in Handles |-> FALSE]
  /\ net = EmptyBag
  /\ nextChain = 1
  /\ hist = [c \in Chains |-> {}]
  /\ LegacyIdle

SpecLegacy == InitLegacy /\ [][NextLegacy]_vars

\* Every request is answered and every due timer fires.
SpecLegacyFair == InitLegacy /\ [][NextLegacy]_vars /\ WF_vars(LegacyEnvironment)

\* ------------------------------------------------------------ vocabulary
HasControl(h)    == rows[h].present /\ rows[h].ncells > 3 /\ rows[h].btn
HasResultCell(h) == rows[h].present /\ rows[h].ncells > 4

\* The status requests outstanding or scheduled, and how many of them (with
\* multiplicity) belong to a chain or poll a handle.
PollItems == {x \in BagToSet(net) : x.kind \in {"status", "timer"}}
Count(S)  == BagCardinality([x \in S |-> net[x]])
PollsOfChain(c)  == Count({x \in PollItems : x.chain = c})
PollsOfHandle(h) == Count({x \in PollItems : x.h = h})

OfChain(c) == {x \in BagToSet(net) : x.chain = c}
Started(c) == c < nextChain
Caught(c)  == hist[c] \cap {"TRANSPORT", "RAISED"} # {}

StatusReq(h, c)   == Item("status", h, c, 0)
RegisterReq(h, c) == Item("register", h, c, 0)
Timer(h, c)       == Item("timer", h, c, 0)

\* The status responses whose payload fetchTaskStatus processes.
Processed == {200, 404} \X Payloads

TypeOK ==
  /\ rows \in [Handles -> RowShapes]
  /\ statusText \in [Handles -> TaskStatuses \cup {""}]
  /\ resultText \in [Handles -> TaskResults \cup {"", "Pending", "No Result"}]
  /\ btnDisabled \in [Handles -> BOOLEAN]
  /\ IsABag(net)
  /\ nextChain \in 1..(MaxChains + 1)

\* ------------------------------------------------------------------ claims

\* C1: every processed status response with task_status SUCCESS writes its
\* task_result into the result cell of the request's row and issues exactly
\* one registration request for the request's handle.
C1_SuccessRegistersOnce ==
  [][\A req \in BagToSet(net), a \in Processed :
       (a[2].task_status = "SUCCESS" /\ StatusResponse(req, a[1], a[2]))
         => /\ HasResultCell(req.h) => resultText'[req.h] = a[2].task_result
            /\ net' = (net (-) One(req)) (+) One(RegisterReq(req.h, req.chain))]_vars

\* C2, as claimed: once a chain has processed SUCCESS, FAILED or NOT FOUND, no
\* status request of that chain is outstanding any more.
C2_TerminalStopsPolling ==
  \A c \in Chains :
    hist[c] \cap {"SUCCESS", "FINAL"} # {}
      => \A x \in OfChain(c) : x.kind # "status"

\* C2, amended: once a chain has processed FAILED or NOT FOUND it has nothing
\* outstanding or scheduled any more; once it has processed SUCCESS it polls
\* again only after a registration of the chain was answered with HTTP 400.
C2_TerminalStopsPollingUnless400 ==
  \A c \in Chains :
    /\ "FINAL" \in hist[c] => OfChain(c) = {}
    /\ ("SUCCESS" \in hist[c] /\ "400" \notin hist[c])
         => \A x \in OfChain(c) : x.kind = "register"

C2_Witness ==
  \E c \in Chains : hist[c] = {"SUCCESS", "400", "FINAL"} /\ OfChain(c) = {}

\* C3: whatever part of the row is missing, processing a status payload raises
\* no error, skips the writes to the missing cells and takes the action of the
\* status: a registration on SUCCESS, a timer on a pending status, nothing on
\* FAILED or NOT FOUND; the control is not touched (no failure path).
C3_LookupsFailSoft ==
  [][\A req \in BagToSet(net), a \in Processed :
       StatusResponse(req, a[1], a[2])
         => /\ "RAISED" \notin hist'[req.chain]
            /\ btnDisabled' = btnDisabled
            /\ ~HasResultCell(req.h) => resultText' = resultText
            /\ \E h \in Handles :
                 net' = (net (-) One(req)) (+)
                          (IF a[2].task_status = "SUCCESS"
                             THEN One(RegisterReq(req.h, req.chain))
                           ELSE IF a[2].task_status \in Terminal THEN EmptyBag
                           ELSE One(Timer(h, req.chain)))]_vars

\* C4: every processed status response with a non-terminal status writes
\* "Pending" into the result cell and sets exactly one timer, and a timer
\* issues its status request only once the delay has elapsed, as a GET for the
\* handle of the request that set it.  Stated for the handles whose row is in
\* the document (a missing row is the case of C3).
C4_PendingPollsSameHandle ==
  [][/\ \A req \in BagToSet(net), a \in Processed :
          (/\ a[2].task_status \notin Terminal
           /\ rows[req.h].present
           /\ StatusResponse(req, a[1], a[2]))
            => /\ HasResultCell(req.h) => resultText'[req.h] = "Pending"
               /\ net' = (net (-) One(req)) (+) One(Timer(req.h, req.chain))
     /\ \A t \in BagToSet(net) :
          TimerFire(t)
            => /\ t.elapsed >= TaskPollDelay
               /\ net' = (net (-) One(t)) (+) One(StatusReq(t.h, t.chain))]_vars

\* C5: every processed status response (HTTP 200 or 404) with task_status
\* FAILED or NOT FOUND leaves "No Result" in the result cell of the request's
\* row and issues and schedules nothing.
C5_FailedStops ==
  [][\A req \in BagToSet(net), a \in Processed :
       (a[2].task_status \in {"FAILED", "NOT FOUND"}
          /\ StatusResponse(req, a[1], a[2]))
         => /\ HasResultCell(req.h) => resultText'[req.h] = "No Result"
            /\ net' = net (-) One(req)]_vars

C5_Witness ==
  \E h \in Handles :
    /\ resultText[h] = "No Result" /\ statusText[h] = "NOT FOUND"
    /\ net = EmptyBag /\ hist[1] = {"FINAL"}

\* C6: a registration answered with HTTP 400 issues exactly one status request
\* for its handle, runs no .catch and leaves every control as it was.
C6_ConflictRefetches ==
  [][\A req \in BagToSet(net), json \in BOOLEAN :
       RegisterResponse(req, 400, json)
         => /\ net' = (net (-) One(req)) (+) One(StatusReq(req.h, req.chain))
            /\ btnDisabled' = btnDisabled
            /\ hist'[req.chain] = hist[req.chain] \cup {"400"}]_vars

C6_Witness ==
  \E c \in Chains, h \in Handles :
    /\ hist[c] = {"SUCCESS", "400"} /\ net = One(StatusReq(h, c))
    /\ HasControl(h) /\ btnDisabled[h]

\* C7: a status or registration request that fails in transport (a network
\* error or an unhandled HTTP status) re-enables the control of its handle and
\* issues nothing, and its chain has nothing outstanding or scheduled from
\* then on.
C7_TransportFailureEnds ==
  [][/\ \A req \in BagToSet(net) :
          (\/ StatusNetworkError(req)
           \/ RegisterNetworkError(req)
           \/ \E a \in StatusAnswers :
                a[1] \notin {200, 404} /\ StatusResponse(req, a[1], a[2])
           \/ \E a \in RegisterAnswers :
                a[1] \notin {201, 400} /\ RegisterResponse(req, a[1], a[2]))
            => /\ HasControl(req.h) => ~btnDisabled'[req.h]
               /\ net' = net (-) One(req)
     /\ \A c \in Chains :
          "TRANSPORT" \in hist'[c] => \A x \in BagToSet(net') : x.chain # c]_vars

C7_Witness ==
  \E c \in Chains, h \in Handles :
    /\ hist[c] = {"SUCCESS", "TRANSPORT"} /\ resultText[h] \in TaskResults
    /\ HasControl(h) /\ ~btnDisabled[h] /\ net = EmptyBag

\* C8: a call of loadTaskStatus leaves the control of its handle disabled in
\* the state in which the chain's first status request is outstanding.
C8_DisabledBeforeFirstRequest ==
  [][\A h \in Handles :
       LoadBody(h)
         => /\ HasControl(h) => btnDisabled'[h]
            /\ net' = net (+) One(StatusReq(h, nextChain))]_vars

C8_Witness ==
  /\ nextChain = 2 /\ net = One(StatusReq("h1", 1))
  /\ HasControl("h1") /\ btnDisabled["h1"]

\* C9: a chain has at most one status request outstanding or scheduled.
C9_ChainIsSerial ==
  \A c \in Chains : PollsOfChain(c) <= 1

C9_Witness ==
  \E c \in Chains :
    /\ {"SUCCESS", "400"} \subseteq hist[c]
    /\ PollsOfChain(c) = 1

\* C10: with loadTaskStatus reached through enabled controls only, a handle
\* has at most one status request outstanding or scheduled.
C10_OnePollPerHandle ==
  \A h \in Handles : PollsOfHandle(h) <= 1

\* C11: when every request is answered, a chain that has processed SUCCESS,
\* FAILED or NOT FOUND, or has had a request fail, eventually has no request
\* outstanding and no poll scheduled.
C11_TerminalOrFailureQuiesces ==
  \A c \in Chains :
    (hist[c] \cap {"SUCCESS", "FINAL", "TRANSPORT", "RAISED"} # {})
      ~> (OfChain(c) = {})

\* C12: while a request of a chain is outstanding or a poll of it is scheduled,
\* the control of the row that request or poll is for is disabled.
C12_DisabledWhileInFlight ==
  \A c \in Chains : \A x \in OfChain(c) :
    HasControl(x.h) => btnDisabled[x.h]

\* C13: a control goes from disabled to enabled only in a step in which a
\* status or registration request fails (a .catch runs); the steps that end a
\* chain on FAILED or NOT FOUND, or on a registration answered 201, leave every
\* control as it was.
C13_EnabledOnlyOnFailure ==
  [][/\ \A h \in Handles :
          (btnDisabled[h] /\ ~btnDisabled'[h])
            => \E c \in Chains :
                 (hist'[c] \ hist[c]) \cap {"TRANSPORT", "RAISED"} # {}
     /\ \A c \in Chains :
          ("FINAL" \in hist'[c] \ hist[c] /\ "RAISED" \notin hist'[c])
            => btnDisabled' = btnDisabled
     /\ \A req \in BagToSet(net) :
          RegisterResponse(req, 201, TRUE) => btnDisabled' = btnDisabled]_vars

C13_Witness ==
  \E c \in Chains, h \in Handles :
    /\ Started(c) /\ OfChain(c) = {} /\ hist[c] = {"SUCCESS"}
    /\ HasControl(h) /\ btnDisabled[h] /\ resultText[h] \in TaskResults

\* C14: every handler of a chain that runs for a request or poll of handle h
\* leaves the chain's requests and polls on h, whatever task_id the response
\* carries, and leaves the row, the cells and the control of every other
\* handle unchanged; so the chain started by loadTaskStatus(h) stays on h.
C14_ConfinedToOwnHandle ==
  [][\A req \in BagToSet(net) :
       (\/ \E a \in StatusAnswers : StatusResponse(req, a[1], a[2])
        \/ StatusNetworkError(req)
        \/ \E a \in RegisterAnswers : RegisterResponse(req, a[1], a[2])
        \/ RegisterNetworkError(req)
        \/ TimerFire(req))
         => /\ \A x \in BagToSet(net') : x.chain = req.chain => x.h = req.h
            /\ \A g \in Handles \ {req.h} :
                 /\ rows'[g] = rows[g]
                 /\ statusText'[g] = statusText[g]
                 /\ resultText'[g] = resultText[g]
                 /\ btnDisabled'[g] = btnDisabled[g]]_vars

\* C15: a response to getStatus that carries SUCCESS or FAILED, or whose
\* processing fails, and a failed request schedule nothing; a response with
\* any other status sets exactly one timer, which issues one getStatus request
\* and only after LegacyPollDelay; and once the server reports only SUCCESS or
\* FAILED, the polling eventually stops.
C15_LegacyStopsOnTerminal ==
  /\ [][/\ \A req \in BagToSet(polls) : \A b \in GetAnswers(req) :
            GetStatusResponse(req, b)
              => polls' = (polls (-) One(req)) (+)
                    (IF b.kind = "data" /\ b.task_status \notin {"SUCCESS", "FAILED"}
                       THEN One(LegacyItem("timer", b.task_id, 0))
                       ELSE EmptyBag)
        /\ \A req \in BagToSet(polls) :
            GetStatusNetworkError(req) => polls' = polls (-) One(req)
        /\ \A t \in BagToSet(polls) :
            LegacyTimerFire(t)
              => /\ t.elapsed >= LegacyPollDelay
                 /\ polls' = (polls (-) One(t)) (+) One(LegacyItem("get", t.h, 0))]_vars
  /\ (tasksDone ~> (polls = EmptyBag))

C15_Witness ==
  /\ tasksDone /\ clicks > 0 /\ polls = EmptyBag
  /\ \E i \in DOMAIN taskRows :
       taskRows[i].id = DataId("h1") /\ taskRows[i].cells[2] = <<"FAILED">>
  /\ \E i \in DOMAIN taskRows :
       taskRows[i].id = DataId("h2") /\ taskRows[i].cells[2] = <<"NOT FOUND">>

\* C16: after getStatus has processed a response for a non-empty handle h, the
\* table has exactly one row with id data-h, appended if there was none and all
\* other rows left as they were, and the cells of that row show h and the
\* task_status and task_result of that response.
C16_OneRowShowsLastResponse ==
  [][\A req \in BagToSet(polls), b \in LegacyPayloads :
       (req.h # "" /\ b \in GetAnswers(req) /\ GetStatusResponse(req, b))
         => LET had == {i \in DOMAIN taskRows  : taskRows[i].id  = DataId(req.h)}
                has == {i \in DOMAIN taskRows' : taskRows'[i].id = DataId(req.h)}
            IN  /\ Cardinality(has) = 1
                /\ had # {} => has = had
                /\ had = {} => has = {Len(taskRows) + 1}
                /\ \A i \in DOMAIN taskRows \ had : taskRows'[i] = taskRows[i]
                /\ \A i \in has :
                     taskRows'[i].cells
                       = <<(<<req.h>>), (<<b.task_status>>),
                           TemplateString(b.task_result)>>]_vars
====
